---------------------------- MODULE Spec2Model ----------------------------
(***************************************************************************)
(* A model of the continuous voice conversation loop of                    *)
(* services/continuous_voice_service.py: ContinuousVoiceSession (start,    *)
(* stop, the audio loop, the speech/silence handlers, the processing of a  *)
(* finished utterance) and the callbacks of ContinuousVoiceInterface.      *)
(*                                                                         *)
(* Time is counted in frame periods (one tick = one 30 ms chunk): a        *)
(* blocking stream.read returns one chunk per tick and time.time() right   *)
(* after it is the frame's arrival stamp.  A frame is identified by that   *)
(* stamp.  The session's thresholds are given in ticks.                    *)
(***************************************************************************)
EXTENDS Integers, Sequences, FiniteSets, TLC

\* ------------------------------------------------------------------ bounds
\* Last tick at which a frame is read (the horizon of a run).
MaxTime == 10
\* The horizon of a run in which start_session was called more than once.
MaxTimeRestarted == 6
\* start_session calls made on one session object (each may start a thread).
MaxStarts == 2
\* The thresholds of a session built with valid arguments, in ticks
\* (constructor arguments, lines 87-89).
silence_threshold == 2
min_speech_duration == 2
max_question_duration == 5
\* The longest time one step of the processing of an utterance (the
\* transcription, the RAG query) takes, in ticks.
MaxProcessingTicks == 1
\* SimpleCache(max_size, ttl_seconds): the constructor arguments, the ttl in
\* ticks of the cache's clock.
max_size == 2
ttl_seconds == 1
\* The last tick of the cache's clock.
MaxCacheTime == 3
\* retry_with_backoff(max_retries = n) for n in 1..MaxRetries.
MaxRetries == 4
\* The most documents handed to one add_documents_batch call.
MaxDocs == 2
\* generate_response calls made on one model manager.
MaxGenerateCalls == 2
\* is_speech calls made on one detector.
MaxVadCalls == 3
\* Samples in a frame given to the detector.
MaxFrameLen == 2
\* time.sleep(0.1) of the loop's exception handler, in ticks (0.1 s / 0.03 s).
SleepTicks == 3

\* None, for speech_start and silence_start.
NULL == -1

Threads == 1..MaxStarts

\* What model.transcribe does: a text, an empty text, success=false, or raise.
TranscribeOutcomes == {"text", "empty", "fail", "raise"}
\* What search_with_cache does, and what process_rag_query reports.
SearchOutcomes == {"docs", "nodocs", "raise"}
GenerationOutcomes == {"success", "failure"}

VARIABLES
    AUDIO_AVAILABLE,      \* module flag: pyaudio could be imported
    is_active,            \* self.is_active
    is_listening,         \* self.is_listening
    audio,                \* self.audio: "none" or "open" (a PyAudio handle)
    stream,               \* self.stream: "none" or "open"
    audio_buffer,         \* self.audio_buffer: deque(maxlen) of frame stamps
    speech_frames,        \* self.speech_frames: list of frame stamps
    silence_start,        \* self.silence_start
    speech_start,         \* self.speech_start
    processing_lock,      \* holder of self.processing_lock, 0 when free
    audio_thread,         \* self.audio_thread: latest thread started, 0 for None
    pc,                   \* position of each audio thread
    caller,               \* position of the caller of start_session/stop_session
    now,                  \* the clock (time.time()), in ticks
    conversation_history, \* ContinuousVoiceInterface.conversation_history
    status,               \* last message given to on_session_status
    openStreams,          \* device streams opened and not closed
    openHandles,          \* PyAudio handles created and not terminated
    starts,               \* start_session calls made so far
    events,               \* log: terminal events of the segmenter, in order
    turn,                 \* log: per thread, the utterance it processes/processed
    obs,                  \* log: the last frame read and what the handlers did
    config,               \* the constructor arguments kept by the session
    last_start,           \* log: the last start_session call and its return
    last_stop,            \* log: the last stop_session call
    vad,                  \* a VoiceActivityDetector and its last is_speech call
    cache,                \* a SimpleCache, the clock and its last operation
    retry,                \* a call of a function wrapped by retry_with_backoff
    mm,                   \* a ModelManager and its last generate_response call
    warm,                 \* a ModelManager's _models and the threads using it
    db                    \* a DatabaseManager, its database and its callers

\* The variables of the voice session and its interface.
voice == <<AUDIO_AVAILABLE, is_active, is_listening, audio, stream,
           audio_buffer, speech_frames, silence_start, speech_start,
           processing_lock, audio_thread, pc, caller, now,
           conversation_history, status, openStreams, openHandles, starts,
           events, turn, obs, config, last_start, last_stop>>

\* The variables of the components modelled on their own.
others == <<vad, cache, retry, mm, warm, db>>

vars == <<voice, others>>

segmenter == <<speech_frames, silence_start, speech_start>>
device == <<audio, stream, openStreams, openHandles>>
flags == <<is_active, is_listening>>
\* What no method of the session assigns after construction.
fixed == <<AUDIO_AVAILABLE, config>>

\* The configuration of the sessions of Spec and SpecAny.
DefaultConfig == [silence_threshold |-> silence_threshold,
                  min_speech_duration |-> min_speech_duration,
                  max_question_duration |-> max_question_duration]

\* The configurations a session object can be built with: __init__ stores any
\* silence_threshold and min_speech_duration; a negative
\* max_question_duration makes deque(maxlen=...) raise, so no such session
\* exists.
Configs == { DefaultConfig,
             [DefaultConfig EXCEPT !.silence_threshold = 0 - 1],
             [DefaultConfig EXCEPT !.min_speech_duration = 0 - 1] }

\* last_start, before any start_session call.
NoStart == [outcome |-> "none", result |-> FALSE]

\* last_stop, when stop_session has not been called since the last
\* start_session. returned: the call has returned; history: the conversation
\* history when it was made; ended: the conversation history when it returned.
NoStop == [returned |-> FALSE, history |-> <<>>, ended |-> <<>>]

NoTurn == [utt |-> <<>>, kind |-> "NONE", question |-> 0, tr |-> "NONE",
           rag |-> "NONE", calls |-> <<>>]
\* obs, before any frame. Of the last frame read: t its stamp, speech the
\* detector's verdict, thread the reader, event the terminal event it caused,
\* idle whether speech_start was None when it came; and, counted from the
\* frames alone since the last terminal event: uttStart the stamp of the first
\* speech frame, silStart the stamp of the first frame of the silence run the
\* frame belongs to, contiguous whether no tick was missed since uttStart,
\* allSpeech whether every frame since uttStart was speech, received the frames
\* since uttStart.
NoObs == [t |-> 0, speech |-> FALSE, thread |-> 0, event |-> "NONE",
          idle |-> TRUE, uttStart |-> NULL, silStart |-> NULL,
          contiguous |-> TRUE, allSpeech |-> TRUE, received |-> <<>>]

\* ------------------------------------------- components not in use
\* last of vad, before any is_speech call.
NoVerdict == [frame |-> <<>>, broken |-> FALSE, primary |-> "none",
              fallback |-> FALSE, verdict |-> FALSE]
VadIdle == [webrtc_available |-> TRUE, calls |-> 0, logged |-> 0,
            last |-> NoVerdict]
CacheKeys == {"k1", "k2", "k3"}
CacheValues == {"a", "b"}
\* What get returns for None.
NoValue == "None"
\* last of cache, before any operation. at: the clock at the operation;
\* stamps_before: _timestamps before it; live_before: the key's latest set
\* had not been removed before it.
NoOperation == [op |-> "none", key |-> "None", result |-> NoValue, at |-> 0,
                stamps_before |-> <<>>, live_before |-> FALSE]
\* SimpleCache(max_size, ttl_seconds) after __init__. values, stamps: the
\* dicts _cache and _timestamps, in insertion order; latest: per key, its
\* most recent set (log).
CacheIdle == [values |-> <<>>, stamps |-> <<>>, clock |-> 0,
              latest |-> [k \in CacheKeys |->
                            [set |-> FALSE, value |-> NoValue, time |-> 0,
                             live |-> FALSE]],
              last |-> NoOperation]
\* A function wrapped by retry_with_backoff, before any call. attempt: the
\* loop variable; outcomes: what each invocation of func did; waits: the
\* time.sleep arguments, in order (logs); state: idle, running, returned or
\* raised; result: the value returned or the exception raised.
RetryIdle == [max_retries |-> 1, backoff_factor |-> 1, attempt |-> 0,
              last_exception |-> "None", outcomes |-> <<>>, waits |-> <<>>,
              state |-> "idle", result |-> "None"]
Models == {"qwen2", "phi3", "mistral"}

\* last of mm, before any generate_response call.
NoGeneration == [model_name |-> "None", cached |-> FALSE, target |-> "None",
                 attempts |-> <<>>, outcomes |-> <<>>, result |-> "None",
                 active_before |-> "None", switches_before |-> 0]
\* ModelManager() with the default arguments (constants.py, lines 29-31; the
\* fourth fallback model is left out).
ManagerIdle == [preferred_model |-> "qwen2",
                fallback_models |-> <<"qwen2", "phi3", "mistral">>,
                active_model |-> "None", model_switches |-> 0, errors |-> 0,
                cache_filled |-> FALSE, calls |-> 0, last |-> NoGeneration]
\* The threads that call _get_or_create_model: the warm-up thread started by
\* __init__, a caller of generate_response, a caller of get_available_models.
ModelThreads == {"warm_up", "generate", "list"}
\* A manager whose threads have not begun. models: the keys of self._models;
\* constructed: the OllamaModel objects built so far, per name; todo: the
\* model names a thread has still to go through.
WarmUpIdle == [models |-> {},
               constructed |-> [m \in Models |-> 0],
               pc |-> [t \in ModelThreads |-> "idle"],
               todo |-> [t \in ModelThreads |-> <<>>]]
Searchers == {"s1", "s2"}
\* A search_with_cache call not made yet. result: what similarity_search
\* returned, or the cache; must: the ids added by the add_documents_batch
\* calls that had returned when the call started (log).
NoSearch == [pc |-> "idle", must |-> {}, result |-> {}]
\* An add_documents_batch call not made yet. repeat: the call before it
\* returned without errors and had the same documents (log).
NoAdd == [docs |-> <<>>, returned |-> FALSE, repeat |-> FALSE, added |-> 0,
          skipped |-> 0, errors |-> 0]
\* No batch passed to database.add_documents. existed: those of its ids the
\* database held already (log).
NoBatch == [ids |-> <<>>, existed |-> {}]
\* An absent entry of _query_cache.
NoEntry == [set |-> FALSE, value |-> {}]
\* DatabaseManager after __init__, on an empty collection. ids: the ids in
\* the vector database; query_cache: the entry of _query_cache for the one
\* query searched; add_pc, batch_size, new_ids, pos, added_count,
\* error_count, added_ids: the add_documents_batch call in progress, whose
\* documents are last_add.docs; last_batch: the batch passed to
\* database.add_documents last; last_add: the latest call, returned or not;
\* committed: the ids added by calls that have returned (log).
DatabaseIdle == [ids |-> {}, query_cache |-> NoEntry,
                 add_pc |-> "idle", batch_size |-> 1,
                 new_ids |-> <<>>, pos |-> 1, added_count |-> 0,
                 error_count |-> 0, added_ids |-> {},
                 last_batch |-> NoBatch,
                 last_add |-> NoAdd,
                 committed |-> {},
                 search |-> [t \in Searchers |-> NoSearch]]

\* ----------------------------------------------------------- pure helpers
\* collections.deque(maxlen=int(sample_rate * max_question_duration / chunk_size)):
\* the number of frames in max_question_duration.
AudioBufferMaxLen == config.max_question_duration

\* Mutant of AudioBufferAppend: a deque without maxlen.
AudioBufferAppendUnbounded(buf, frame) == Append(buf, frame)

\* deque.append with maxlen: the oldest entry falls out when full.
AudioBufferAppend(buf, frame) ==
    IF Len(buf) >= AudioBufferMaxLen
    THEN Append(Tail(buf), frame)
    ELSE Append(buf, frame)

\* Mutant of SilenceStartOnSpeech: the silence timer survives a speech frame.
SilenceStartKept(sil) == sil

\* _handle_speech_detected, line 212: the silence timer is reset.
SilenceStartOnSpeech(sil) == NULL

\* _handle_speech_detected, lines 215-216.
SpeechStartOnSpeech(sp, ct) == IF sp = NULL THEN ct ELSE sp

\* _handle_speech_detected, lines 215-222: a fresh list at speech start, then
\* the chunk is appended.
FramesOnSpeech(sp, frames, frame) ==
    Append(IF sp = NULL THEN <<>> ELSE frames, frame)

\* Mutant of MaxDurationReached: the cutoff comes one frame late.
MaxDurationReachedLate(ct, sp) == ct - sp > config.max_question_duration + 1

\* Mutant of MaxDurationReached: the duration is never checked.
MaxDurationNever(ct, sp) == FALSE

\* _handle_speech_detected, line 225.
MaxDurationReached(ct, sp) == ct - sp > config.max_question_duration

\* _handle_silence_detected, lines 235-236.
SilenceStartOnSilence(sil, ct) == IF sil = NULL THEN ct ELSE sil

\* Mutant of FramesOnSilence: silence frames are buffered too.
FramesOnSilenceAppended(frames, frame) == Append(frames, frame)

\* _handle_silence_detected takes the time only: the chunk is not buffered.
FramesOnSilence(frames, frame) == frames

\* Mutant of SilenceReached: a run of exactly the threshold does not count.
SilenceReachedStrict(ct, sil) == ct - sil > config.silence_threshold

\* _handle_silence_detected, lines 240-241.
SilenceReached(ct, sil) == ct - sil >= config.silence_threshold

\* Mutant of EnoughSpeech: the minimum speech duration is not checked.
EnoughSpeechAlways(sil, sp) == TRUE

\* _handle_silence_detected, lines 243-244.
EnoughSpeech(sil, sp) == sil - sp >= config.min_speech_duration

\* VoiceInputService.transcribe_file: raises when no model is loaded (before
\* its try); inside the try, no suitable model or a raising model.transcribe
\* gives success=false; else the model's result.
TranscribeFile(hasModels, chosen, r) ==
    IF ~hasModels THEN "raise"
    ELSE IF ~chosen \/ r = "raise" THEN "fail"
    ELSE r

\* _process_rag_query: which of its returns is taken.
ProcessRagQuery(search, gen) ==
    CASE search = "raise" -> "raise"
      [] search = "nodocs" -> "nodocs"
      [] gen = "failure" -> "genfail"
      [] OTHER -> "response"

\* Mutant of TranscriptionUsable: the empty text is not checked.
TranscriptionSucceeded(o) == o \in {"text", "empty"}

\* _process_speech_buffer, line 268 and lines 276-277: the transcription is
\* usable when it reports success and its stripped text is not empty.
TranscriptionUsable(o) == o = "text"

\* _process_rag_query: the text returned for each outcome of the RAG step.
RagAnswer(o) ==
    CASE o = "response" -> "response"
      [] o = "nodocs" -> "no_relevant_information"
      [] o = "genfail" -> "error_message"
      [] o = "raise" -> "error_message"

\* Mutant of AnswerCallbacks: a failed RAG step is not reported.
AnswerCallbacksDropErrors(q, response) ==
    IF response = "error_message" THEN <<>>
    ELSE <<[type |-> "answer", content |-> q, text |-> response]>>

\* _process_speech_buffer, lines 291-292: on_response_ready is called once.
AnswerCallbacks(q, response) ==
    <<[type |-> "answer", content |-> q, text |-> response]>>

\* _process_speech_buffer, lines 284-285 with _on_question_detected.
QuestionCallbacks(q) ==
    <<[type |-> "question", content |-> q, text |-> "question"]>>

\* The status shown when the transcription is not usable or raised.
FailureStatus(o) ==
    CASE o = "fail" -> "not_understood"
      [] o = "empty" -> "no_speech"
      [] o = "raise" -> "error"
      [] OTHER -> "generating"

\* Mutant of HistoryAppend: the new entries are put in front.
HistoryInsertFirst(history, entries) == entries \o history

\* conversation_history.append of _on_question_detected and
\* _on_response_ready.
HistoryAppend(history, entries) == history \o entries

\* Mutant of RagCalls: the closing status comes before on_response_ready.
RagCallsStatusFirst(cbs) ==
    <<"rag", "ready">> \o [i \in 1..Len(cbs) |-> "answer"]

\* _process_speech_buffer, lines 289-295: the calls made once the question is
\* known, in order: _process_rag_query, on_response_ready, the "Ready" status.
RagCalls(cbs) ==
    <<"rag">> \o [i \in 1..Len(cbs) |-> "answer"] \o <<"ready">>

\* _process_speech_buffer, lines 265-288: the calls made up to the status
\* that follows the transcription, in order.
TranscribeCalls(o, cbs) ==
    IF TranscriptionUsable(o)
    THEN <<"transcribe">> \o [i \in 1..Len(cbs) |-> "question"]
           \o <<"generating">>
    ELSE <<"transcribe", FailureStatus(o)>>

\* Mutant of LoopAfterError: a failed read ends the loop.
LoopEndsOnError(active) == "done"

\* The loop's exception handler, lines 203-207: break when the session is no
\* longer active, else sleep and go on.
LoopAfterError(active) == IF active THEN "check" ELSE "done"

\* Mutant of ResetSpeechDetection: the frame list is not emptied.
ResetKeepsFrames(frames) ==
    [speech_frames |-> frames, silence_start |-> NULL, speech_start |-> NULL]

\* Mutant of ResetSpeechDetection: the speech timer is not cleared.
ResetKeepsSpeechStart(frames) ==
    [speech_frames |-> <<>>, silence_start |-> NULL,
     speech_start |-> speech_start]

\* _reset_speech_detection: the segmenter's fields after it.
ResetSpeechDetection(frames) ==
    [speech_frames |-> <<>>, silence_start |-> NULL, speech_start |-> NULL]

\* Mutant of Cleanup: the PyAudio handle is not terminated.
CleanupStreamOnly(dev, closeOk) ==
    [dev EXCEPT !.stream = "none",
                !.openStreams = IF dev.stream = "open" THEN @ - 1 ELSE @]

\* _cleanup: the device fields after it. closeOk: stream.close() did not raise;
\* when it raises, the handler only logs, so neither field is cleared and the
\* handle is not terminated.
Cleanup(dev, closeOk) ==
    IF dev.stream = "open" /\ ~closeOk
    THEN dev
    ELSE [audio |-> "none",
          stream |-> "none",
          openStreams |-> IF dev.stream = "open"
                          THEN dev.openStreams - 1 ELSE dev.openStreams,
          openHandles |-> IF dev.audio = "open"
                          THEN dev.openHandles - 1 ELSE dev.openHandles]

Device == [audio |-> audio, stream |-> stream, openStreams |-> openStreams,
           openHandles |-> openHandles]

SetDevice(dev) ==
    /\ audio' = dev.audio
    /\ stream' = dev.stream
    /\ openStreams' = dev.openStreams
    /\ openHandles' = dev.openHandles

SetSegmenter(seg) ==
    /\ speech_frames' = seg.speech_frames
    /\ silence_start' = seg.silence_start
    /\ speech_start' = seg.speech_start

\* The last tick at which a frame may be read.
Horizon == IF starts > 1 THEN MaxTimeRestarted ELSE MaxTime

Alive(t) == t # 0 /\ pc[t] \notin {"none", "done"}

\* ------------------------------------------------------------------- Init
\* The components modelled on their own, while the specification at hand does
\* not use them; x names the component it does use.
OthersIdleExcept(x) ==
    /\ IF x = "vad" THEN TRUE ELSE vad = VadIdle
    /\ IF x = "cache" THEN TRUE ELSE cache = CacheIdle
    /\ IF x = "retry" THEN TRUE ELSE retry = RetryIdle
    /\ IF x = "mm" THEN TRUE ELSE mm = ManagerIdle
    /\ IF x = "warm" THEN TRUE ELSE warm = WarmUpIdle
    /\ IF x = "db" THEN TRUE ELSE db = DatabaseIdle

\* The state after ContinuousVoiceSession(...) with the arguments c.
VoiceInit(c) ==
    /\ AUDIO_AVAILABLE \in BOOLEAN
    /\ config = c
    /\ last_start = NoStart
    /\ last_stop = NoStop
    /\ is_active = FALSE
    /\ is_listening = FALSE
    /\ audio = "none"
    /\ stream = "none"
    /\ audio_buffer = <<>>
    /\ speech_frames = <<>>
    /\ silence_start = NULL
    /\ speech_start = NULL
    /\ processing_lock = 0
    /\ audio_thread = 0
    /\ pc = [t \in Threads |-> "none"]
    /\ caller = "idle"
    /\ now = 0
    /\ conversation_history = <<>>
    /\ status = "none"
    /\ openStreams = 0
    /\ openHandles = 0
    /\ starts = 0
    /\ events = <<>>
    /\ turn = [t \in Threads |-> NoTurn]
    /\ obs = NoObs

InitWith(c) == VoiceInit(c) /\ OthersIdleExcept("voice")

Init == InitWith(DefaultConfig)

\* A session built with any arguments the constructor accepts.
InitConfig == \E c \in Configs : InitWith(c)

\* ------------------------------------------------------- start and stop
\* start_session, lines 128-165. o: what PyAudio() and audio.open() do.
StartBody ==
    /\ starts' = starts + 1
    /\ IF ~AUDIO_AVAILABLE
       THEN /\ last_start' = [outcome |-> "unavailable", result |-> FALSE]
            /\ UNCHANGED <<flags, device, audio_thread, pc, status>>
       ELSE \E o \in {"ok", "init_fail", "open_fail"}, closeOk \in BOOLEAN :
            CASE o = "init_fail" ->
                   /\ SetDevice(Cleanup(Device, closeOk))
                   /\ last_start' = [outcome |-> o, result |-> FALSE]
                   /\ UNCHANGED <<flags, audio_thread, pc, status>>
              [] o = "open_fail" ->
                   /\ SetDevice(Cleanup([Device EXCEPT
                                            !.audio = "open",
                                            !.openHandles = @ + 1], closeOk))
                   /\ last_start' = [outcome |-> o, result |-> FALSE]
                   /\ UNCHANGED <<flags, audio_thread, pc, status>>
              [] o = "ok" ->
                   /\ last_start' = [outcome |-> o, result |-> TRUE]
                   /\ \E t \in Threads :
                        /\ pc[t] = "none"
                        /\ \A u \in Threads : u < t => pc[u] # "none"
                        /\ pc' = [pc EXCEPT ![t] = "check"]
                        /\ audio_thread' = t
                   /\ audio' = "open"
                   /\ stream' = "open"
                   /\ openHandles' = openHandles + 1
                   /\ openStreams' = openStreams + 1
                   /\ is_active' = TRUE
                   /\ is_listening' = TRUE
                   /\ status' = "listening"
    /\ last_stop' = NoStop
    /\ UNCHANGED <<others, fixed, audio_buffer, segmenter, processing_lock,
                   caller, now, conversation_history, events, turn, obs>>

\* The first start_session of a session object (ContinuousVoiceInterface
\* creates a fresh session for every start_continuous_session, line 397).
StartSession ==
    /\ caller = "idle"
    /\ starts = 0
    /\ StartBody

\* start_session called again on the same session object: nothing in
\* start_session refuses it.
Restart ==
    /\ caller = "idle"
    /\ starts > 0
    /\ starts < MaxStarts
    /\ StartBody

\* stop_session, lines 169-170: the flags are cleared.
StopBegin ==
    /\ caller = "idle"
    /\ is_active' = FALSE
    /\ is_listening' = FALSE
    /\ caller' = "join"
    /\ last_stop' = [returned |-> FALSE, history |-> conversation_history,
                     ended |-> <<>>]
    /\ UNCHANGED <<others, fixed, last_start, device, audio_buffer, segmenter,
                   processing_lock, audio_thread, pc, now,
                   conversation_history, status, starts, events, turn, obs>>

\* stop_session, lines 173-178: join(timeout=2.0) returns when the thread has
\* ended, or after 2 s while the thread is busy with an utterance; then
\* _cleanup, and the status.
StopEnd ==
    /\ caller = "join"
    /\ \/ ~Alive(audio_thread)
       \/ Alive(audio_thread)
          /\ pc[audio_thread] \in {"lock", "transcribe", "rag"}
    /\ \E closeOk \in BOOLEAN : SetDevice(Cleanup(Device, closeOk))
    /\ status' = "ended"
    /\ caller' = "idle"
    /\ last_stop' = [last_stop EXCEPT !.returned = TRUE,
                                      !.ended = conversation_history]
    /\ UNCHANGED <<others, fixed, last_start, flags, audio_buffer, segmenter,
                   processing_lock, audio_thread, pc, now,
                   conversation_history, starts, events, turn, obs>>

\* ---------------------------------------------------------- audio loop
\* while self.is_active, line 184.
Check(t) ==
    /\ pc[t] = "check"
    /\ pc' = [pc EXCEPT ![t] = IF is_active THEN "read" ELSE "done"]
    /\ UNCHANGED <<others, fixed, last_start, last_stop, flags, device, audio_buffer, segmenter,
                   processing_lock, audio_thread, caller, now,
                   conversation_history, status, starts, events, turn, obs>>

\* stream.read raises (always when self.stream is None), lines 203-207: the
\* loop ends if the session is no longer active, else sleeps and retries.
ReadError(t) ==
    /\ pc[t] = "read"
    /\ IF is_active
       THEN /\ now + SleepTicks <= Horizon
            /\ now' = now + SleepTicks
       ELSE now' = now
    /\ pc' = [pc EXCEPT ![t] = LoopAfterError(is_active)]
    /\ UNCHANGED <<others, fixed, last_start, last_stop, flags, device, audio_buffer, segmenter,
                   processing_lock, audio_thread, caller,
                   conversation_history, status, starts, events, turn, obs>>

\* One pass of the loop body, lines 186-201, with the handler it calls
\* (_handle_speech_detected or _handle_silence_detected) up to the point where
\* _process_speech_buffer takes the lock. sp: the detector's verdict.
\* The blocking read returns the chunk of the frame period that follows the
\* call: what the device captured while the thread was not reading is not
\* delivered (exception_on_overflow=False silences the overrun).
Read(t) ==
    /\ pc[t] = "read"
    /\ stream = "open"
    /\ now < Horizon
    /\ \E sp \in BOOLEAN :
       LET ct == now + 1
           accumulating == speech_start # NULL
           sp1 == IF sp THEN SpeechStartOnSpeech(speech_start, ct)
                  ELSE speech_start
           sil1 == IF sp THEN SilenceStartOnSpeech(silence_start)
                   ELSE IF accumulating
                        THEN SilenceStartOnSilence(silence_start, ct)
                        ELSE silence_start
           fr1 == IF sp THEN FramesOnSpeech(speech_start, speech_frames, ct)
                  ELSE IF accumulating
                       THEN FramesOnSilence(speech_frames, ct)
                       ELSE speech_frames
           kind == IF sp
                   THEN IF MaxDurationReached(ct, sp1)
                        THEN "FORCED_CUTOFF" ELSE "NONE"
                   ELSE IF accumulating /\ SilenceReached(ct, sil1)
                        THEN IF EnoughSpeech(sil1, sp1)
                             THEN "COMPLETE" ELSE "ABORTED"
                        ELSE "NONE"
           \* _process_speech_buffer returns at once on an empty buffer
           event == IF kind \in {"COMPLETE", "FORCED_CUTOFF"} /\ fr1 = <<>>
                    THEN "NONE" ELSE kind
           prevUtt == IF obs.event # "NONE" THEN NULL ELSE obs.uttStart
           prevSil == IF obs.event # "NONE" \/ obs.speech
                      THEN NULL ELSE obs.silStart
           utt1 == IF sp /\ prevUtt = NULL THEN ct ELSE prevUtt
           seg1 == [speech_frames |-> fr1, silence_start |-> sil1,
                    speech_start |-> sp1]
           o1 == [t |-> ct, speech |-> sp, thread |-> t, event |-> event,
                  idle |-> ~accumulating,
                  uttStart |-> utt1,
                  silStart |-> IF sp \/ utt1 = NULL THEN NULL
                               ELSE IF prevSil = NULL THEN ct ELSE prevSil,
                  contiguous |-> IF prevUtt = NULL THEN TRUE
                                 ELSE obs.contiguous /\ ct = obs.t + 1,
                  allSpeech |-> IF prevUtt = NULL THEN TRUE
                                ELSE obs.allSpeech /\ sp,
                  received |-> IF utt1 = NULL THEN <<>>
                               ELSE Append(IF prevUtt = NULL THEN <<>>
                                           ELSE obs.received,
                                           [t |-> ct, speech |-> sp])]
       IN
       /\ now' = ct
       /\ audio_buffer' = AudioBufferAppend(audio_buffer, ct)
       /\ obs' = o1
       /\ events' = IF event = "NONE" THEN events
                    ELSE Append(events, [kind |-> event, start |-> sp1,
                                         frames |-> fr1, obs |-> o1])
       /\ CASE event = "NONE" ->
                 /\ SetSegmenter(seg1)
                 /\ pc' = [pc EXCEPT ![t] = "check"]
                 /\ status' = IF sp /\ ~accumulating THEN "recording"
                              ELSE status
                 /\ UNCHANGED <<processing_lock, turn>>
            [] event = "ABORTED" ->
                 /\ SetSegmenter(ResetSpeechDetection(fr1))
                 /\ pc' = [pc EXCEPT ![t] = "check"]
                 /\ UNCHANGED <<processing_lock, turn, status>>
            [] OTHER ->
                 /\ SetSegmenter(seg1)
                 /\ turn' = [turn EXCEPT ![t] =
                       [NoTurn EXCEPT !.utt = fr1, !.kind = event,
                           !.calls = IF processing_lock = 0
                                     THEN <<"processing">> ELSE <<>>]]
                 /\ IF processing_lock = 0
                    THEN /\ processing_lock' = t
                         /\ pc' = [pc EXCEPT ![t] = "transcribe"]
                         /\ status' = "processing"
                    ELSE /\ pc' = [pc EXCEPT ![t] = "lock"]
                         /\ UNCHANGED <<processing_lock, status>>
    /\ UNCHANGED <<others, fixed, last_start, last_stop, flags, device, audio_thread, caller,
                   conversation_history, starts>>

\* with self.processing_lock, line 258, when another thread held the lock.
AcquireLock(t) ==
    /\ pc[t] = "lock"
    /\ processing_lock = 0
    /\ processing_lock' = t
    /\ pc' = [pc EXCEPT ![t] = "transcribe"]
    /\ status' = "processing"
    /\ turn' = [turn EXCEPT ![t].calls = Append(@, "processing")]
    /\ UNCHANGED <<others, fixed, last_start, last_stop, flags, device, audio_buffer, segmenter,
                   audio_thread, caller, now, conversation_history, starts,
                   events, obs>>

\* _process_speech_buffer, lines 263-288 and the handler of lines 297-300:
\* the frames are saved and transcribed. saved: _save_speech_to_file did not
\* raise; hasModels, chosen, r: what transcribe_file meets; d: the time it all
\* takes, during which the thread is not in stream.read.
Transcribe(t) ==
    /\ pc[t] = "transcribe"
    /\ \E d \in 0..MaxProcessingTicks :
          /\ now + d <= Horizon
          /\ now' = now + d
    /\ \E saved, hasModels, chosen \in BOOLEAN, r \in TranscribeOutcomes :
       LET o == IF saved THEN TranscribeFile(hasModels, chosen, r)
                ELSE "raise"
           q == IF speech_frames = <<>> THEN 0 ELSE speech_frames[1]
           t1 == [turn[t] EXCEPT !.tr = o, !.question = q]
           cbs == QuestionCallbacks(q)
       IN
       /\ turn' = [turn EXCEPT ![t] = [t1 EXCEPT !.calls =
              @ \o TranscribeCalls(o, cbs)]]
       /\ IF TranscriptionUsable(o)
          THEN /\ conversation_history' =
                      HistoryAppend(conversation_history, cbs)
               /\ status' = "generating"
               /\ pc' = [pc EXCEPT ![t] = "rag"]
               /\ UNCHANGED <<segmenter, processing_lock>>
          ELSE /\ status' = FailureStatus(o)
               /\ SetSegmenter(ResetSpeechDetection(speech_frames))
               /\ processing_lock' = 0
               /\ pc' = [pc EXCEPT ![t] = "check"]
               /\ UNCHANGED conversation_history
    /\ UNCHANGED <<others, fixed, last_start, last_stop, flags, device, audio_buffer,
                   audio_thread, caller, starts, events, obs>>

\* _process_speech_buffer, lines 289-295, with _process_rag_query: the answer
\* (or the error text) is given to on_response_ready, the segmenter is reset.
\* search, gen: what the search and the generation do; d: the time they take.
Rag(t) ==
    /\ pc[t] = "rag"
    /\ \E d \in 0..MaxProcessingTicks :
          /\ now + d <= Horizon
          /\ now' = now + d
    /\ \E search \in SearchOutcomes, gen \in GenerationOutcomes :
       LET o == ProcessRagQuery(search, gen)
           cbs == AnswerCallbacks(turn[t].question, RagAnswer(o))
       IN
       /\ conversation_history' = HistoryAppend(conversation_history, cbs)
       /\ turn' = [turn EXCEPT ![t] = [@ EXCEPT !.rag = o, !.calls =
              @ \o RagCalls(cbs)]]
    /\ SetSegmenter(ResetSpeechDetection(speech_frames))
    /\ status' = "ready"
    /\ processing_lock' = 0
    /\ pc' = [pc EXCEPT ![t] = "check"]
    /\ UNCHANGED <<others, fixed, last_start, last_stop, flags, device, audio_buffer,
                   audio_thread, caller, starts, events, obs>>

Next ==
    \/ StartSession
    \/ StopBegin
    \/ StopEnd
    \/ \E t \in Threads : Check(t)
    \/ \E t \in Threads : Read(t)
    \/ \E t \in Threads : ReadError(t)
    \/ \E t \in Threads : Transcribe(t)
    \/ \E t \in Threads : Rag(t)

\* One session object, started once (as ContinuousVoiceInterface does).
Spec == Init /\ [][Next]_vars

NextAny ==
    \/ Next
    \/ Restart
    \/ \E t \in Threads : AcquireLock(t)

\* A session object whose start_session may be called again at any time.
SpecAny == Init /\ [][NextAny]_vars

\* One session object built with any accepted arguments, started once.
SpecConfig == InitConfig /\ [][Next]_vars


\* ================================================================ claims
Processing(t) == pc[t] \in {"lock", "transcribe", "rag"}

SegmenterIdle ==
    speech_start = NULL /\ silence_start = NULL /\ speech_frames = <<>>

\* The terminal events logged for the utterance that began with frame u.
EventsOf(u) == { i \in DOMAIN events : events[i].obs.uttStart = u }

\* The last frame read was a silence frame of an utterance in progress whose
\* silence run, measured from the first silence frame of the run, has lasted
\* silence_threshold.
SilenceRunComplete ==
    /\ obs.t > 0
    /\ ~obs.speech
    /\ obs.uttStart # NULL
    /\ obs.t - obs.silStart >= silence_threshold

\* The stamps of the speech frames among the received frames, in order.
SpeechStamps(received) ==
    LET speechOnly == SelectSeq(received, LAMBDA f : f.speech)
    IN [i \in 1..Len(speechOnly) |-> speechOnly[i].t]

AllStamps(received) == [i \in 1..Len(received) |-> received[i].t]

\* C1: when the speech of an utterance (first speech frame to the first frame
\* of the final silence run) lasted at least min_speech_duration and the
\* silence run that follows has lasted at least silence_threshold (exactly
\* the threshold counts), the frame that reaches the threshold emits COMPLETE,
\* it is the only terminal event of that utterance, and once the utterance
\* has been processed the segmenter is idle again.
C1_CompleteOnSilence ==
    (SilenceRunComplete /\ obs.silStart - obs.uttStart >= min_speech_duration)
    => /\ obs.event = "COMPLETE"
       /\ Cardinality(EventsOf(obs.uttStart)) = 1
       /\ events[Len(events)].obs = obs
       /\ (~Processing(obs.thread) => SegmenterIdle)

C1_Witness ==
    /\ SilenceRunComplete
    /\ obs.silStart - obs.uttStart >= min_speech_duration
    /\ obs.t - obs.silStart = silence_threshold
    /\ obs.event = "COMPLETE"
    /\ pc[obs.thread] = "read"
    /\ SegmenterIdle

\* The speech duration of a logged terminal event, from the frames alone.
SpeechDuration(e) ==
    IF e.kind = "FORCED_CUTOFF" THEN e.obs.t - e.obs.uttStart
    ELSE e.obs.silStart - e.obs.uttStart

\* C2: every utterance handed off for processing has a speech duration of at
\* least min_speech_duration; and a silence run reaching the threshold after
\* speech shorter than min_speech_duration emits ABORTED, never COMPLETE: the
\* buffer is dropped, nothing is transcribed, no callback gets the utterance.
C2_ShortSpeechAborted ==
    /\ \A i \in DOMAIN events :
          events[i].kind # "ABORTED"
          => SpeechDuration(events[i]) >= min_speech_duration
    /\ \A t \in Threads :
          turn[t].kind # "NONE"
          => \E i \in DOMAIN events :
                   /\ events[i].frames = turn[t].utt
                   /\ events[i].kind # "ABORTED"
                   /\ SpeechDuration(events[i]) >= min_speech_duration
    /\ (SilenceRunComplete /\ obs.silStart - obs.uttStart < min_speech_duration)
       => /\ obs.event = "ABORTED"
          /\ SegmenterIdle
          /\ ~Processing(obs.thread)
          /\ \A t \in Threads :
                turn[t].utt = <<>> \/ turn[t].utt[1] # obs.uttStart
          /\ \A i \in DOMAIN conversation_history :
                conversation_history[i].content # obs.uttStart

C2_Witness ==
    /\ SilenceRunComplete
    /\ obs.silStart - obs.uttStart < min_speech_duration
    /\ obs.event = "ABORTED"
    /\ SegmenterIdle

\* C3: in a run of speech frames only, one per tick, the frame that is more
\* than max_question_duration after the first emits FORCED_CUTOFF; that is
\* one frame after the maximum at the latest, never before the maximum, and
\* it is the only terminal event of the utterance.
C3_ForcedCutoff ==
    (obs.t > 0 /\ obs.speech /\ obs.allSpeech /\ obs.contiguous)
    => /\ obs.t - obs.uttStart <= max_question_duration + 1
       /\ (obs.t - obs.uttStart >= max_question_duration + 1
           => /\ obs.event = "FORCED_CUTOFF"
              /\ Cardinality(EventsOf(obs.uttStart)) = 1)
       /\ (obs.event # "NONE"
           => /\ obs.event = "FORCED_CUTOFF"
              /\ obs.t - obs.uttStart >= max_question_duration)
       /\ (obs.event = "NONE" => EventsOf(obs.uttStart) = {})

C3_Witness ==
    /\ obs.speech /\ obs.allSpeech /\ obs.contiguous
    /\ obs.event = "FORCED_CUTOFF"
    /\ obs.t - obs.uttStart = max_question_duration + 1
    /\ Len(obs.received) = max_question_duration + 2
    /\ turn[obs.thread].utt = AllStamps(obs.received)

\* C4, as claimed: the buffer handed off on COMPLETE holds every frame
\* received from the first speech frame up to the completing silence frame.
C4_AllFramesBuffered ==
    \A i \in DOMAIN events :
       events[i].kind = "COMPLETE"
       => events[i].frames = AllStamps(events[i].obs.received)

\* C4, amended: the buffer handed off on COMPLETE holds exactly the speech
\* frames received since the first speech frame, in arrival order; the
\* silence frames received while accumulating are not in it.
C4_SpeechFramesBuffered ==
    /\ \A i \in DOMAIN events :
          events[i].kind = "COMPLETE"
          => events[i].frames = SpeechStamps(events[i].obs.received)
    /\ \A t \in Threads :
          (pc[t] \in {"transcribe", "rag"} /\ turn[t].kind = "COMPLETE")
          => /\ turn[t].utt = SpeechStamps(obs.received)
             /\ speech_frames = turn[t].utt

C4_Witness ==
    /\ obs.event = "COMPLETE"
    /\ pc[obs.thread] = "transcribe"
    /\ Len(obs.received) = min_speech_duration + silence_threshold + 1
    /\ Len(turn[obs.thread].utt) = min_speech_duration
    /\ \E i \in DOMAIN obs.received : ~obs.received[i].speech

\* C5: a speech frame clears silence_start, whatever silence came before it,
\* so a COMPLETE (or ABORTED) comes only with a silence frame whose own
\* uninterrupted silence run has lasted silence_threshold: silence before an
\* intervening speech frame does not count.
C5_SpeechResetsSilence ==
    /\ (obs.t > 0 /\ obs.speech) => silence_start = NULL
    /\ (obs.t > 0 /\ ~obs.speech /\ obs.uttStart # NULL /\ obs.event = "NONE")
       => /\ silence_start = obs.silStart
          /\ obs.t - obs.silStart < silence_threshold
    /\ \A i \in DOMAIN events :
          events[i].kind \in {"COMPLETE", "ABORTED"}
          => /\ ~events[i].obs.speech
             /\ events[i].obs.t - events[i].obs.silStart >= silence_threshold

\* The silence frames among the received frames.
SilenceCount(received) == Len(SelectSeq(received, LAMBDA f : ~f.speech))

\* An utterance interrupted by speech: more silence frames than the threshold
\* needs have been received, no run of them reached it, and nothing was emitted.
C5_Witness ==
    /\ obs.t > 0 /\ ~obs.speech /\ obs.event = "NONE"
    /\ obs.uttStart # NULL
    /\ SilenceCount(obs.received) > silence_threshold + 1
    /\ \E i, j \in DOMAIN obs.received :
          i < j /\ ~obs.received[i].speech /\ obs.received[j].speech
    /\ EventsOf(obs.uttStart) = {}

\* C6, as claimed: a silence frame that comes to an idle segmenter is
\* discarded, no buffer retains it.
C6_IdleSilenceDiscarded ==
    (obs.t > 0 /\ ~obs.speech /\ obs.idle)
    => /\ SegmenterIdle
       /\ \A i \in DOMAIN audio_buffer : audio_buffer[i] # obs.t

\* C6, amended: a silence frame that comes to an idle segmenter leaves
\* speech_start, silence_start and speech_frames null/empty and emits nothing;
\* it is kept in audio_buffer, which never holds more than its maxlen frames.
C6_IdleSilenceBounded ==
    /\ Len(audio_buffer) <= AudioBufferMaxLen
    /\ (obs.t > 0 /\ ~obs.speech /\ obs.idle)
       => /\ SegmenterIdle
          /\ obs.event = "NONE"
          /\ audio_buffer[Len(audio_buffer)] = obs.t

C6_Witness ==
    /\ obs.t > AudioBufferMaxLen + 1
    /\ ~obs.speech /\ obs.idle
    /\ events = <<>>
    /\ Len(audio_buffer) = AudioBufferMaxLen
    /\ audio_buffer[1] = obs.t - AudioBufferMaxLen + 1

\* C7: after a terminal event, once the thread is out of the processing of
\* the utterance (whatever transcription and RAG did), speech_start and
\* silence_start are null and speech_frames is empty.
C7_IdleAfterTerminalEvent ==
    (obs.event # "NONE" /\ ~Processing(obs.thread)) => SegmenterIdle

C7_Witness ==
    /\ obs.event = "FORCED_CUTOFF"
    /\ turn[obs.thread].tr = "raise"
    /\ pc[obs.thread] = "read"
    /\ SegmenterIdle

\* C8: at most one thread is in the processing of an utterance, and while a
\* thread processes an utterance the buffer it was handed is not changed.
C8_SingleActiveTurn ==
    /\ Cardinality({ t \in Threads : Processing(t) }) <= 1
    /\ \A t \in Threads :
          pc[t] \in {"transcribe", "rag"} => speech_frames = turn[t].utt

\* The entries of the history of one kind for question q.
HistoryOf(type, q) ==
    { i \in DOMAIN conversation_history :
        /\ conversation_history[i].type = type
        /\ conversation_history[i].content = q }

Count(calls, c) == Len(SelectSeq(calls, LAMBDA x : x = c))

\* C9: when the transcription reports no success or an empty text, the RAG
\* step is not called, on_response_ready is not called for the utterance, the
\* last status is an error-style message, and the thread is back in the loop
\* with the lock released.
C9_TranscriptionFailure ==
    \A t \in Threads :
       turn[t].tr \in {"fail", "empty"}
       => /\ turn[t].calls \in
               { <<"processing", "transcribe", "not_understood">>,
                 <<"processing", "transcribe", "no_speech">> }
          /\ turn[t].rag = "NONE"
          /\ HistoryOf("answer", turn[t].question) = {}
          /\ HistoryOf("question", turn[t].question) = {}
          /\ ~Processing(t)
          /\ processing_lock # t
          /\ (pc[t] = "done" => ~is_active)

C9_Witness ==
    /\ turn[1].tr = "fail"
    /\ status = "not_understood"
    /\ pc[1] = "read"
    /\ SegmenterIdle
    /\ is_active

\* C10: when the RAG step fails (the search or the generation raises, or the
\* generation reports no success), on_response_ready is still called exactly
\* once for the question, with an error message as the answer, and the thread
\* is back in the loop.
C10_RagFailureAnswered ==
    \A t \in Threads :
       turn[t].rag \in {"genfail", "raise"}
       => /\ Count(turn[t].calls, "answer") = 1
          /\ Cardinality(HistoryOf("answer", turn[t].question)) = 1
          /\ \A i \in HistoryOf("answer", turn[t].question) :
                conversation_history[i].text = "error_message"
          /\ Cardinality(HistoryOf("question", turn[t].question)) = 1
          /\ ~Processing(t)
          /\ processing_lock # t
          /\ (pc[t] = "done" => ~is_active)

C10_Witness ==
    /\ turn[1].rag = "raise"
    /\ turn[1].tr = "text"
    /\ pc[1] = "read"
    /\ is_active
    /\ conversation_history[Len(conversation_history)].text = "error_message"

\* C11: an utterance whose transcription gives a non-empty text has its
\* question entry appended to the history by on_question_detected; when the
\* RAG step is over the answer entry follows it directly, and the calls of the
\* turn came in the order on_question_detected, on_response_ready, the closing
\* status update (the "Processing" and "Generating" status updates precede
\* and separate the first two).
C11_TurnAppendedInOrder ==
    \A t \in Threads :
       turn[t].tr = "text"
       => /\ Cardinality(HistoryOf("question", turn[t].question)) = 1
          /\ IF turn[t].rag = "NONE"
             THEN /\ pc[t] = "rag"
                  /\ turn[t].calls =
                       <<"processing", "transcribe", "question", "generating">>
                  /\ HistoryOf("answer", turn[t].question) = {}
             ELSE /\ turn[t].calls =
                       <<"processing", "transcribe", "question", "generating",
                         "rag", "answer", "ready">>
                  /\ \E i \in HistoryOf("question", turn[t].question) :
                        HistoryOf("answer", turn[t].question) = {i + 1}

C11_Witness ==
    /\ turn[1].tr = "text"
    /\ turn[1].rag = "response"
    /\ turn[1].kind = "COMPLETE"
    /\ status = "ready"
    /\ Len(conversation_history) = 2
    /\ conversation_history[2].text = "response"

IsPrefix(h, g) ==
    /\ Len(h) <= Len(g)
    /\ \A i \in DOMAIN h : g[i] = h[i]

\* The history is a list of turns in the order of their utterances: each
\* question entry is directly followed by the answer entry of the same
\* question, except the last one while its answer is being made, and the
\* questions come in the order in which their utterances began.
HistoryInTurnOrder(h) ==
    /\ \A i \in DOMAIN h :
          /\ h[i].type = "answer"
             => i > 1 /\ h[i - 1].type = "question"
                      /\ h[i - 1].content = h[i].content
          /\ (h[i].type = "question" /\ i < Len(h))
             => h[i + 1].type = "answer"
    /\ \A i, j \in DOMAIN h :
          (i < j /\ h[i].type = "question" /\ h[j].type = "question")
          => h[i].content < h[j].content

\* C13: every step leaves the entries of the history in place and only adds
\* entries at its end; only a step of the processing of an utterance adds any;
\* and each answer entry comes right after the question entry of its turn,
\* before the question entry of any later turn.
C13_HistoryAppendOnly ==
    [][/\ IsPrefix(conversation_history, conversation_history')
       /\ conversation_history' # conversation_history
          => \E t \in Threads :
                /\ pc[t] \in {"transcribe", "rag"}
                /\ processing_lock = t
       /\ HistoryInTurnOrder(conversation_history')]_vars

\* Two turns are in the history, the second with its answer.
C13_Witness ==
    /\ Len(conversation_history) = 4
    /\ conversation_history[1].content < conversation_history[3].content
    /\ conversation_history[4].type = "answer"
    /\ ~is_active
    /\ status = "ended"

DeviceReleased ==
    /\ stream = "none"
    /\ audio = "none"
    /\ openStreams = 0
    /\ openHandles = 0

\* C14: once stop_session has returned, no audio thread starts another
\* blocking read (a thread still alive is finishing an utterance or is at the
\* loop's test, which ends it), the stream is closed and the PyAudio handle
\* terminated, and the history still begins with the entries it had when
\* stop_session was called.
C14_StopEndsLoop ==
    last_stop.returned
    => /\ \A t \in Threads : pc[t] # "read"
       /\ DeviceReleased
       /\ IsPrefix(last_stop.history, conversation_history)

\* C15: whenever no session is running and no start_session or stop_session
\* call is under way (the session was never started, its start failed, or it
\* was stopped), no stream is open and no PyAudio handle is held, also when
\* stream.close() has raised.
C15_DeviceReleased ==
    (caller = "idle" /\ ~is_active) => DeviceReleased

\* C16: at most one microphone stream is open at any time: a start_session
\* made while a capture is active does not open a second one.
C16_SingleCapture == openStreams <= 1

\* C17: when a read fails while the session is active, the thread goes back
\* to the loop's test after the pause, is_active and is_listening stay true
\* and the segmenter, the buffers and the event log are as before the read;
\* is_active is cleared by stop_session only, and an audio thread ends only
\* when is_active is false.
C17_ReadErrorRetried ==
    [][/\ \A t \in Threads :
             /\ (pc[t] = "read" /\ pc'[t] # "read" /\ obs' = obs /\ is_active)
                => /\ pc'[t] = "check"
                   /\ now' = now + SleepTicks
                   /\ is_active' /\ is_listening'
                   /\ UNCHANGED <<segmenter, audio_buffer, events>>
             /\ (pc[t] # "done" /\ pc'[t] = "done") => ~is_active
       /\ (is_active /\ ~is_active') => (caller = "idle" /\ caller' = "join")
      ]_vars

\* A read failed in the middle of an utterance and the utterance went on.
C17_Witness ==
    /\ is_active
    /\ obs.uttStart # NULL
    /\ ~obs.contiguous
    /\ obs.event = "NONE"
    /\ speech_start = obs.uttStart
    /\ Len(speech_frames) >= 2
    /\ pc[1] = "read"

\* C18: when the audio libraries are missing or PyAudio() or audio.open()
\* raises, start_session returns False, is_active and is_listening stay
\* false, no audio thread exists, no frame is ever read, and neither a stream
\* nor a PyAudio handle is held.
C18_FailedStartIsFatal ==
    last_start.outcome \in {"unavailable", "init_fail", "open_fail"}
    => /\ last_start.result = FALSE
       /\ ~is_active
       /\ ~is_listening
       /\ audio_thread = 0
       /\ \A t \in Threads : pc[t] = "none"
       /\ obs = NoObs
       /\ DeviceReleased

C18_Witness ==
    /\ last_start.outcome = "open_fail"
    /\ AUDIO_AVAILABLE
    /\ starts = 1
    /\ status = "none"
    /\ DeviceReleased

\* __init__ stores these without a check; the claim calls negative ones invalid.
ConfigValid(c) ==
    /\ c.silence_threshold >= 0
    /\ c.min_speech_duration >= 0
    /\ c.max_question_duration >= 0

\* C19: a session built with an invalid configuration fails at start: its
\* start_session does not return True, it never becomes active, no audio
\* thread runs and no frame is processed.
C19_InvalidConfigRejected ==
    ~ConfigValid(config)
    => /\ last_start.result = FALSE
       /\ ~is_active
       /\ \A t \in Threads : pc[t] = "none"
       /\ obs = NoObs

\* C20, as claimed: every frame (speech or silence) of an utterance in
\* progress that comes more than max_question_duration after its first speech
\* frame emits FORCED_CUTOFF, so after any frame an utterance still in
\* progress is at most max_question_duration old (frames come one per tick).
C20_CutoffOnAnyFrame ==
    (obs.t > 0 /\ obs.uttStart # NULL /\ obs.contiguous
       /\ obs.t - obs.uttStart > max_question_duration)
    => obs.event = "FORCED_CUTOFF"

\* C20, amended: FORCED_CUTOFF is emitted by speech frames only: by every
\* speech frame that comes more than max_question_duration after the first
\* speech frame, whatever silence came in between, and by no other frame; the
\* buffer handed off is the speech frames as they are, and after the
\* processing the segmenter is idle. A silence frame never cuts off, so with
\* one frame per tick an utterance still in progress after a frame is at most
\* max_question_duration + silence_threshold old.
C20_CutoffOnSpeechFrame ==
    /\ (obs.t > 0 /\ obs.uttStart # NULL)
       => /\ obs.event = "FORCED_CUTOFF"
             <=> (obs.speech /\ obs.t - obs.uttStart > max_question_duration)
          /\ (obs.event = "NONE" /\ obs.contiguous)
             => obs.t - obs.uttStart
                   <= max_question_duration + silence_threshold
    /\ \A i \in DOMAIN events :
          events[i].kind = "FORCED_CUTOFF"
          => events[i].frames = SpeechStamps(events[i].obs.received)
    /\ obs.event = "FORCED_CUTOFF"
       => IF Processing(obs.thread)
          THEN speech_frames = turn[obs.thread].utt
          ELSE SegmenterIdle

\* A cutoff that comes later than one frame after the maximum, because
\* silence frames came in between.
C20_Witness ==
    /\ obs.event = "FORCED_CUTOFF"
    /\ ~obs.allSpeech
    /\ obs.contiguous
    /\ obs.t - obs.uttStart = max_question_duration + silence_threshold + 1
    /\ pc[obs.thread] = "transcribe"

\* C28: once stop_session has returned, the history is what it was at the
\* return: no on_question_detected or on_response_ready call appends to it
\* any more, also when an utterance was being processed at the stop.
C28_NoCallbackAfterStop ==
    last_stop.returned => conversation_history = last_stop.ended

\* ================================================== VoiceActivityDetector
\* 16-bit samples a frame may hold: silence, quiet, and loud ones.
Samples == {0, 100, 400, 0 - 1000}

Frames == UNION { [1..n -> Samples] : n \in 1..MaxFrameLen }

RECURSIVE SumSeq(_)
SumSeq(s) == IF s = <<>> THEN 0 ELSE s[1] + SumSeq(Tail(s))

\* The value an int16 holds after an arithmetic result x.
Int16Wrap(x) == ((x + 32768) % 65536) - 32768

\* audio_data**2, line 76: audio_data is an int16 array and so is its square.
SquaredSamples(frame) ==
    [i \in DOMAIN frame |-> Int16Wrap(frame[i] * frame[i])]

\* sqrt(sum / n) / 32768.0 > 0.01, lines 76-77, for the sum of n squares:
\* sum / n > (0.01 * 32768)^2 = 2^30 / 10^4 (both sides divided by 16). The
\* square root of a negative mean is nan, and nan > threshold is false.
EnergyExceedsThreshold(sum, n) == sum >= 0 /\ sum * 625 > 67108864 * n

\* _energy_based_detection, lines 68-79. broken: np.frombuffer raises.
EnergyBasedDetection(frame, broken) ==
    IF broken THEN FALSE
    ELSE EnergyExceedsThreshold(SumSeq(SquaredSamples(frame)), Len(frame))

\* A detector, after __init__ (lines 39-54).
InitVad ==
    /\ VoiceInit(DefaultConfig)
    /\ OthersIdleExcept("vad")
    /\ \E available \in BOOLEAN :
          vad = [VadIdle EXCEPT !.webrtc_available = available]

\* is_speech, lines 56-66. primary: what vad.is_speech does with the frame.
IsSpeech ==
    /\ vad.calls < MaxVadCalls
    /\ \E frame \in Frames, broken \in BOOLEAN,
          primary \in {"speech", "silence", "raise"} :
          LET fallback == ~vad.webrtc_available \/ primary = "raise"
              verdict == IF fallback
                         THEN EnergyBasedDetection(frame, broken)
                         ELSE primary = "speech"
          IN vad' = [vad EXCEPT
                       !.calls = @ + 1,
                       !.logged = IF vad.webrtc_available /\ primary = "raise"
                                  THEN @ + 1 ELSE @,
                       !.last = [frame |-> frame, broken |-> broken,
                                 primary |-> primary, fallback |-> fallback,
                                 verdict |-> verdict]]
    /\ UNCHANGED <<voice, cache, retry, mm, warm, db>>

NextVad == IsSpeech

SpecVad == InitVad /\ [][NextVad]_vars

\* The normalized RMS energy of the frame's samples exceeds 0.01.
RmsExceedsThreshold(frame) ==
    SumSeq([i \in DOMAIN frame |-> frame[i] * frame[i]]) * 625
       > 67108864 * Len(frame)

\* C21: is_speech always gives a verdict; the fallback gives it exactly when
\* the primary classifier is unavailable or raises on the frame, and then the
\* verdict is speech iff the normalized RMS energy of the frame exceeds the
\* threshold (silence if the computation fails); the primary classifier stays
\* in use; and the degradation is logged once.
C21_FallbackOnPrimaryFailure ==
    /\ vad.last.fallback
       <=> (vad.calls > 0
            /\ (~vad.webrtc_available \/ vad.last.primary = "raise"))
    /\ vad.last.fallback
       => vad.last.verdict = IF vad.last.broken THEN FALSE
                             ELSE RmsExceedsThreshold(vad.last.frame)
    /\ vad.logged <= 1

\* =========================================================== ModelManager
\* The (preferred_model, fallback_models) pairs a manager is built with: the
\* default, whose fallback list begins with the preferred model, and lists
\* that do not name the preferred model.
ManagerConfigs ==
    { <<"qwen2", <<"qwen2", "phi3", "mistral">> >>,
      <<"qwen2", <<"phi3", "mistral">> >>,
      <<"phi3", <<"mistral">> >> }

InitModels ==
    /\ VoiceInit(DefaultConfig)
    /\ OthersIdleExcept("mm")
    /\ \E c \in ManagerConfigs :
          mm = [ManagerIdle EXCEPT !.preferred_model = c[1],
                                   !.fallback_models = c[2]]

\* Mutant of TargetModel: the preferred model goes before the active one.
TargetModelPreferredFirst(model_name, active, preferred) ==
    IF model_name # "None" THEN model_name ELSE preferred

\* model_name or self._active_model or self.preferred_model, line 341.
TargetModel(model_name, active, preferred) ==
    IF model_name # "None" THEN model_name
    ELSE IF active # "None" THEN active
    ELSE preferred

\* [target_model] + self.fallback_models, line 344.
AttemptChain(target, fallbacks) == <<target>> \o fallbacks

\* generate_response, lines 317-368, under self._lock. hit: the response
\* cache holds a response for the prompt; first: the position in the chain of
\* the first attempt that does not raise, 0 when every attempt raises.
GenerateResponse ==
    /\ mm.calls < MaxGenerateCalls
    /\ \E model_name \in Models \cup {"None"}, use_cache \in BOOLEAN,
          hit \in BOOLEAN :
       LET target == TargetModel(model_name, mm.active_model,
                                 mm.preferred_model)
           chain == AttemptChain(target, mm.fallback_models)
       IN
       IF use_cache /\ hit /\ mm.cache_filled
       THEN mm' = [mm EXCEPT
                     !.calls = @ + 1,
                     !.last = [NoGeneration EXCEPT
                                 !.model_name = model_name,
                                 !.cached = TRUE,
                                 !.result = "cached",
                                 !.active_before = mm.active_model,
                                 !.switches_before = mm.model_switches]]
       ELSE \E first \in 0..Len(chain) :
            LET tried == IF first = 0 THEN chain ELSE SubSeq(chain, 1, first)
                ok == [i \in DOMAIN tried |-> i = first]
                switched == first # 0 /\ mm.active_model # chain[first]
            IN mm' = [mm EXCEPT
                  !.calls = @ + 1,
                  !.active_model = IF first = 0 THEN @ ELSE chain[first],
                  !.model_switches = IF switched THEN @ + 1 ELSE @,
                  !.errors = @ + Len(SelectSeq(ok, LAMBDA b : ~b)),
                  !.cache_filled = @ \/ (use_cache /\ first # 0),
                  !.last = [model_name |-> model_name,
                            cached |-> FALSE,
                            target |-> target,
                            attempts |-> tried,
                            outcomes |-> ok,
                            result |-> IF first = 0 THEN "None"
                                       ELSE chain[first],
                            active_before |-> mm.active_model,
                            switches_before |-> mm.model_switches]]
    /\ UNCHANGED <<voice, vad, cache, retry, warm, db>>

NextModels == GenerateResponse

SpecModels == InitModels /\ [][NextModels]_vars

\* C22: a generate_response call that is not answered from the response cache
\* tries first the explicit model_name, else the active model, else the
\* preferred model, then the fallback models in list order; every attempt
\* before the last one failed; when an attempt succeeds its response is
\* returned, its model is the active model and a switch is counted iff the
\* active model changed; None is returned only when every model of the chain
\* was tried and failed, and then the active model is unchanged.
C22_FallbackChain ==
    (mm.calls > 0 /\ ~mm.last.cached)
    => LET l == mm.last
           n == Len(l.attempts)
           chain == <<l.target>> \o mm.fallback_models
       IN
       /\ l.target = IF l.model_name # "None" THEN l.model_name
                     ELSE IF l.active_before # "None" THEN l.active_before
                     ELSE mm.preferred_model
       /\ n >= 1 /\ n <= Len(chain)
       /\ l.attempts = SubSeq(chain, 1, n)
       /\ \A i \in 1..(n - 1) : ~l.outcomes[i]
       /\ IF l.outcomes[n]
          THEN /\ l.result = l.attempts[n]
               /\ mm.active_model = l.attempts[n]
               /\ mm.model_switches = l.switches_before
                     + (IF l.active_before # l.attempts[n] THEN 1 ELSE 0)
          ELSE /\ l.result = "None"
               /\ n = Len(chain)
               /\ mm.active_model = l.active_before
               /\ mm.model_switches = l.switches_before

\* The first model failed, a fallback answered and became the active model;
\* the active model was the target of the call.
C22_Witness ==
    /\ mm.calls = 2
    /\ mm.last.model_name = "None"
    /\ mm.last.active_before = "phi3"
    /\ mm.last.target = "phi3"
    /\ mm.last.result = "mistral"
    /\ mm.active_model = "mistral"
    /\ mm.model_switches = 2

\* C29: within one generate_response call no model name is attempted twice.
C29_NoModelTriedTwice ==
    \A i, j \in DOMAIN mm.last.attempts :
       i # j => mm.last.attempts[i] # mm.last.attempts[j]

\* ------------------------------------------- ModelManager: model warm-up
\* ModelManager() with preferred_model "qwen2" and two fallback models: the
\* warm-up thread is started by __init__ and is about to call
\* _get_or_create_model(preferred_model).
WarmUpPreferred == "qwen2"
WarmUpFallbacks == <<"qwen2", "phi3">>

InitWarmUp ==
    /\ VoiceInit(DefaultConfig)
    /\ OthersIdleExcept("warm")
    /\ warm = [WarmUpIdle EXCEPT !.pc["warm_up"] = "get",
                                 !.todo["warm_up"] = <<WarmUpPreferred>>]

\* generate_response (it holds self._lock, which no other thread modelled
\* here takes) or get_available_models is called: the names it goes through.
BeginCall(t) ==
    /\ t \in {"generate", "list"}
    /\ warm.pc[t] = "idle"
    /\ warm' = [warm EXCEPT
                  !.pc[t] = "get",
                  !.todo[t] = IF t = "generate"
                              THEN AttemptChain(WarmUpPreferred,
                                                WarmUpFallbacks)
                              ELSE <<WarmUpPreferred>> \o WarmUpFallbacks]
    /\ UNCHANGED <<voice, vad, cache, retry, mm, db>>

\* _get_or_create_model, line 304: the test "model_name not in self._models".
GetModel(t) ==
    /\ warm.pc[t] = "get"
    /\ warm' = [warm EXCEPT
                  !.pc[t] = IF Head(warm.todo[t]) \in warm.models
                            THEN "use" ELSE "construct"]
    /\ UNCHANGED <<voice, vad, cache, retry, mm, db>>

\* _get_or_create_model, line 305: OllamaModel(model_name) is built (it asks
\* the server for its tags) and stored in self._models.
CreateModel(t) ==
    /\ warm.pc[t] = "construct"
    /\ warm' = [warm EXCEPT
                  !.constructed[Head(warm.todo[t])] = @ + 1,
                  !.models = @ \cup {Head(warm.todo[t])},
                  !.pc[t] = "use"]
    /\ UNCHANGED <<voice, vad, cache, retry, mm, db>>

\* What the caller does with the model: the warm-up thread ends;
\* generate_response returns if the model answers (ok) and goes to the next
\* name otherwise; get_available_models goes to the next name.
UseModel(t) ==
    /\ warm.pc[t] = "use"
    /\ \E ok \in BOOLEAN :
       LET rest == Tail(warm.todo[t])
           over == \/ t = "warm_up"
                   \/ rest = <<>>
                   \/ (t = "generate" /\ ok)
       IN warm' = [warm EXCEPT
                     !.todo[t] = IF over THEN <<>> ELSE rest,
                     !.pc[t] = IF over THEN "done" ELSE "get"]
    /\ UNCHANGED <<voice, vad, cache, retry, mm, db>>

NextWarmUp ==
    \/ \E t \in ModelThreads : BeginCall(t)
    \/ \E t \in ModelThreads : GetModel(t)
    \/ \E t \in ModelThreads : CreateModel(t)
    \/ \E t \in ModelThreads : UseModel(t)

SpecWarmUp == InitWarmUp /\ [][NextWarmUp]_vars

\* C23: however the warm-up thread and the callers of generate_response and
\* get_available_models interleave, at most one OllamaModel is built for a
\* model name.
C23_OneInstancePerModel ==
    \A m \in Models : warm.constructed[m] <= 1

\* ============================================================ SimpleCache
\* A dict is a sequence of entries [key, val] in insertion order.
DictHas(d, k) == \E i \in DOMAIN d : d[i].key = k

DictKeys(d) == { d[i].key : i \in DOMAIN d }

DictGet(d, k) == d[CHOOSE i \in DOMAIN d : d[i].key = k].val

\* d[k] = v: an existing key keeps its place.
DictPut(d, k, v) ==
    IF DictHas(d, k)
    THEN [i \in DOMAIN d |-> IF d[i].key = k THEN [key |-> k, val |-> v]
                             ELSE d[i]]
    ELSE Append(d, [key |-> k, val |-> v])

\* del d[k]
DictDel(d, k) == SelectSeq(d, LAMBDA e : e.key # k)

\* Mutant of Expired: entries never expire.
ExpiredNever(clock, stamp) == FALSE

\* get, line 236: time.time() - self._timestamps[key] > self.ttl_seconds.
Expired(clock, stamp) == clock - stamp > ttl_seconds

\* set, line 247: the cache is full and the key is new.
CacheFull(d, k) == Len(d) >= max_size /\ ~DictHas(d, k)

\* Mutant of OldestKey: the entry set last is evicted.
NewestKey(stamps) ==
    stamps[CHOOSE i \in DOMAIN stamps :
              \A j \in DOMAIN stamps : stamps[j].val <= stamps[i].val].key

\* set, line 248: min(self._timestamps.keys(), key=self._timestamps.get), the
\* first key, in the dict's order, with the smallest timestamp.
OldestKey(stamps) ==
    stamps[CHOOSE i \in DOMAIN stamps :
              /\ \A j \in DOMAIN stamps : stamps[j].val >= stamps[i].val
              /\ \A j \in 1..(i - 1) : stamps[j].val > stamps[i].val].key

InitCache ==
    /\ VoiceInit(DefaultConfig)
    /\ AUDIO_AVAILABLE
    /\ OthersIdleExcept("cache")
    /\ cache = CacheIdle

\* time.time() moves on.
CacheTick ==
    /\ cache.clock < MaxCacheTime
    /\ cache' = [cache EXCEPT !.clock = @ + 1]
    /\ UNCHANGED <<voice, vad, retry, mm, warm, db>>

\* get, lines 229-241, under self._lock.
CacheGet(k) ==
    /\ LET has == DictHas(cache.values, k)
           expired == has /\ Expired(cache.clock, DictGet(cache.stamps, k))
           op == [op |-> "get", key |-> k, at |-> cache.clock,
                  stamps_before |-> cache.stamps,
                  live_before |-> cache.latest[k].live,
                  result |-> IF has /\ ~expired
                             THEN DictGet(cache.values, k) ELSE NoValue]
       IN cache' = [cache EXCEPT
                      !.values = IF expired THEN DictDel(@, k) ELSE @,
                      !.stamps = IF expired THEN DictDel(@, k) ELSE @,
                      !.latest[k].live = IF expired THEN FALSE ELSE @,
                      !.last = op]
    /\ UNCHANGED <<voice, vad, retry, mm, warm, db>>

\* set, lines 243-253, under self._lock.
CacheSet(k, v) ==
    /\ LET full == CacheFull(cache.values, k)
           oldest == IF full THEN OldestKey(cache.stamps) ELSE "None"
           values1 == IF full THEN DictDel(cache.values, oldest)
                      ELSE cache.values
           stamps1 == IF full THEN DictDel(cache.stamps, oldest)
                      ELSE cache.stamps
           op == [op |-> "set", key |-> k, at |-> cache.clock,
                  stamps_before |-> cache.stamps,
                  live_before |-> cache.latest[k].live,
                  result |-> NoValue]
       IN cache' = [cache EXCEPT
                      !.values = DictPut(values1, k, v),
                      !.stamps = DictPut(stamps1, k, cache.clock),
                      !.latest = [x \in CacheKeys |->
                                    IF x = k
                                    THEN [set |-> TRUE, value |-> v,
                                          time |-> cache.clock, live |-> TRUE]
                                    ELSE IF x = oldest
                                    THEN [@[x] EXCEPT !.live = FALSE]
                                    ELSE @[x]],
                      !.last = op]
    /\ UNCHANGED <<voice, vad, retry, mm, warm, db>>

\* clear, lines 255-259, under self._lock.
CacheClear ==
    /\ cache' = [cache EXCEPT
                   !.values = <<>>,
                   !.stamps = <<>>,
                   !.latest = [x \in CacheKeys |-> [@[x] EXCEPT !.live = FALSE]],
                   !.last = [NoOperation EXCEPT !.op = "clear",
                                                !.at = cache.clock,
                                                !.stamps_before = cache.stamps]]
    /\ UNCHANGED <<voice, vad, retry, mm, warm, db>>

NextCache ==
    \/ CacheTick
    \/ \E k \in CacheKeys : CacheGet(k)
    \/ \E k \in CacheKeys, v \in CacheValues : CacheSet(k, v)
    \/ CacheClear

SpecCache == InitCache /\ [][NextCache]_vars

\* C24: a get returns a value only if the key's most recent set is at most
\* ttl_seconds old, and then it is the value of that set; when that set is
\* older the get returns None and the entry is gone; when the key was set, has
\* not expired and has not been evicted or cleared, the get returns the value
\* set last; and a get leaves the timestamps of the entries it keeps as they
\* were.
C24_CacheHonoursTtl ==
    cache.last.op = "get"
    => LET l == cache.last
           s == cache.latest[l.key]
           age == l.at - s.time
       IN
       /\ l.result # NoValue
          => s.set /\ age <= ttl_seconds /\ l.result = s.value
       /\ (s.set /\ age > ttl_seconds)
          => l.result = NoValue /\ ~DictHas(cache.values, l.key)
       /\ (l.live_before /\ age <= ttl_seconds) => l.result = s.value
       /\ cache.stamps = IF l.result = NoValue
                         THEN DictDel(l.stamps_before, l.key)
                         ELSE l.stamps_before

\* A get of an entry that has outlived the ttl: None, and the entry is removed.
C24_Witness ==
    /\ cache.last.op = "get"
    /\ cache.last.live_before
    /\ cache.last.at - cache.latest[cache.last.key].time = ttl_seconds + 1
    /\ cache.last.result = NoValue
    /\ Len(cache.values) = 1
    /\ Len(cache.last.stamps_before) = 2

\* The keys a set removed: those of the dict before it that are not in it now.
EvictedBySet == DictKeys(cache.last.stamps_before) \ DictKeys(cache.values)

\* C25: the cache never holds more than max_size entries and _cache and
\* _timestamps have the same keys; a set of a new key into a full cache
\* removes exactly one entry, one whose set time was the oldest, and any other
\* set removes nothing.
C25_CacheBounded ==
    /\ Len(cache.values) <= max_size
    /\ Len(cache.stamps) = Len(cache.values)
    /\ DictKeys(cache.stamps) = DictKeys(cache.values)
    /\ Cardinality(DictKeys(cache.values)) = Len(cache.values)
    /\ cache.last.op = "set"
       => LET before == cache.last.stamps_before
          IN IF Len(before) >= max_size /\ ~DictHas(before, cache.last.key)
             THEN /\ Cardinality(EvictedBySet) = 1
                  /\ \A e \in EvictedBySet : \A i \in DOMAIN before :
                        before[i].val >= DictGet(before, e)
             ELSE EvictedBySet = {}

\* A set of a new key into a full cache whose entries differ in age.
C25_Witness ==
    /\ cache.last.op = "set"
    /\ Len(cache.last.stamps_before) = max_size
    /\ ~DictHas(cache.last.stamps_before, cache.last.key)
    /\ \E i, j \in DOMAIN cache.last.stamps_before :
          cache.last.stamps_before[i].val < cache.last.stamps_before[j].val
    /\ Len(cache.values) = max_size
    /\ cache.last.stamps_before[1].key \in EvictedBySet

\* ====================================================== retry_with_backoff
\* What one invocation of func does: it returns a value or raises.
FuncValues == {"v1", "v2"}
FuncExceptions == {"e1", "e2"}
BackoffFactors == {1, 3}

\* Mutant of ShouldWait: a sleep after every failed attempt.
ShouldWaitAlways(attempt, n) == TRUE

\* wrapper, line 154: attempt < max_retries - 1.
ShouldWait(attempt, n) == attempt < n - 1

\* wrapper, line 155: backoff_factor * (2**attempt).
SleepTime(b, attempt) == b * (2 ^ attempt)

InitRetry ==
    /\ VoiceInit(DefaultConfig)
    /\ OthersIdleExcept("retry")
    /\ retry = RetryIdle

\* The decorated function is called: the wrapper starts its loop.
RetryCall(n, b) ==
    /\ retry.state # "running"
    /\ retry' = [RetryIdle EXCEPT !.max_retries = n, !.backoff_factor = b,
                                  !.state = "running"]
    /\ UNCHANGED <<voice, vad, cache, mm, warm, db>>

\* One pass of the loop, lines 149-163: func is invoked; its value is
\* returned, or its exception kept and, unless this was the last attempt,
\* the wrapper sleeps. After the last pass the exception is raised (line 165).
RetryAttempt(o) ==
    /\ retry.state = "running"
    /\ retry.attempt < retry.max_retries
    /\ IF o \in FuncValues
       THEN retry' = [retry EXCEPT !.outcomes = Append(@, o),
                                   !.state = "returned",
                                   !.result = o]
       ELSE LET wait == ShouldWait(retry.attempt, retry.max_retries)
                last == retry.attempt + 1 = retry.max_retries
            IN retry' = [retry EXCEPT
                           !.outcomes = Append(@, o),
                           !.last_exception = o,
                           !.waits = IF wait
                                     THEN Append(@, SleepTime(retry.backoff_factor,
                                                              retry.attempt))
                                     ELSE @,
                           !.attempt = @ + 1,
                           !.state = IF last THEN "raised" ELSE @,
                           !.result = IF last THEN o ELSE @]
    /\ UNCHANGED <<voice, vad, cache, mm, warm, db>>

NextRetry ==
    \/ \E n \in 1..MaxRetries, b \in BackoffFactors : RetryCall(n, b)
    \/ \E o \in FuncValues \cup FuncExceptions : RetryAttempt(o)

SpecRetry == InitRetry /\ [][NextRetry]_vars

\* C27: func is invoked at most max_retries times; a call that returned did so
\* with the value of the first invocation that succeeded, which was the last
\* invocation; a call that raised did so after max_retries failures, with the
\* exception of the last one; the wait after failed attempt k (from 0) is
\* backoff_factor * 2^k, and there is no wait after the final attempt.
C27_RetryWithBackoff ==
    LET n == retry.max_retries
        made == Len(retry.outcomes)
        failed == { i \in 1..made : retry.outcomes[i] \in FuncExceptions }
    IN
    /\ made <= n
    /\ \A i \in 1..(made - 1) : i \in failed
    /\ retry.state = "returned"
       => /\ made >= 1
          /\ retry.outcomes[made] \in FuncValues
          /\ retry.result = retry.outcomes[made]
    /\ retry.state = "raised"
       => /\ made = n
          /\ failed = 1..n
          /\ retry.result = retry.outcomes[n]
    /\ retry.state = "running" => failed = 1..made /\ made < n
    /\ Len(retry.waits) = IF Cardinality(failed) = n THEN n - 1
                          ELSE Cardinality(failed)
    /\ \A k \in 0..(Len(retry.waits) - 1) :
          retry.waits[k + 1] = retry.backoff_factor * (2 ^ k)

\* Three attempts that all failed, with two waits between them.
C27_Witness ==
    /\ retry.state = "raised"
    /\ retry.max_retries = 3
    /\ retry.backoff_factor = 3
    /\ retry.outcomes = <<"e1", "e1", "e2">>
    /\ retry.result = "e2"
    /\ retry.waits = <<3, 6>>

\* ======================================================== DatabaseManager
\* doc.metadata.get("id") of a document: an id, or "None" when it has none.
DocIds == {"d1", "d2"}
DocInputs == UNION { [1..n -> DocIds \cup {"None"}] : n \in 0..MaxDocs }
BatchSizes == {1, 2}

SeqToSet(s) == { s[i] : i \in DOMAIN s }

\* add_documents_batch, lines 224-228: the ids of the documents that have an
\* id which is not among existing.
NewIds(docs, existing) ==
    SelectSeq(docs, LAMBDA d : d # "None" /\ d \notin existing)

\* lines 239-240: the batch starting at pos.
Batch(ids, pos, size) ==
    SubSeq(ids, pos, IF pos + size - 1 <= Len(ids) THEN pos + size - 1
                     ELSE Len(ids))

InitDatabase ==
    /\ VoiceInit(DefaultConfig)
    /\ AUDIO_AVAILABLE
    /\ OthersIdleExcept("db")
    /\ db = DatabaseIdle

\* add_documents_batch, lines 212-232: an empty list returns at once;
\* otherwise the manager's lock is taken, the existing ids are read
\* (get_existing_ids returns [] when the database fails to list them) and the
\* documents filtered; with nothing new the call returns.
AddBegin(docs, size, readable) ==
    /\ db.add_pc = "idle"
    /\ LET existing == IF readable THEN db.ids ELSE {}
           new == NewIds(docs, existing)
           call == [NoAdd EXCEPT
                      !.docs = docs,
                      !.repeat = /\ db.last_add.returned
                                 /\ db.last_add.errors = 0
                                 /\ db.last_add.docs = docs]
       IN IF docs = <<>>
          THEN db' = [db EXCEPT !.last_add = [call EXCEPT !.returned = TRUE]]
          ELSE IF new = <<>>
          THEN db' = [db EXCEPT !.last_add = [call EXCEPT
                                                !.returned = TRUE,
                                                !.skipped = Len(docs)]]
          ELSE db' = [db EXCEPT !.add_pc = "batches",
                                !.last_add = call,
                                !.batch_size = size,
                                !.new_ids = new]
    /\ UNCHANGED <<voice, vad, cache, retry, mm, warm>>

\* lines 238-250: one batch is passed to database.add_documents, which adds
\* it or raises.
AddBatch(ok) ==
    /\ db.add_pc = "batches"
    /\ db.pos <= Len(db.new_ids)
    /\ LET batch == Batch(db.new_ids, db.pos, db.batch_size)
       IN db' = [db EXCEPT
                   !.last_batch = [ids |-> batch,
                                   existed |-> SeqToSet(batch) \cap db.ids],
                   !.ids = IF ok THEN @ \cup SeqToSet(batch) ELSE @,
                   !.added_ids = IF ok THEN @ \cup SeqToSet(batch) ELSE @,
                   !.added_count = IF ok THEN @ + Len(batch) ELSE @,
                   !.error_count = IF ok THEN @ ELSE @ + Len(batch),
                   !.pos = @ + db.batch_size]
    /\ UNCHANGED <<voice, vad, cache, retry, mm, warm>>

\* lines 252-261: the caches are cleared and the counts returned.
AddEnd ==
    /\ db.add_pc = "batches"
    /\ db.pos > Len(db.new_ids)
    /\ db' = [db EXCEPT
                !.add_pc = "idle",
                !.query_cache = NoEntry,
                !.committed = @ \cup db.added_ids,
                !.last_add = [@ EXCEPT
                                !.returned = TRUE,
                                !.added = db.added_count,
                                !.skipped = Len(db.last_add.docs) - Len(db.new_ids),
                                !.errors = db.error_count],
                !.last_batch = NoBatch,
                !.batch_size = 1, !.new_ids = <<>>, !.pos = 1,
                !.added_count = 0, !.error_count = 0, !.added_ids = {}]
    /\ UNCHANGED <<voice, vad, cache, retry, mm, warm>>

\* search_with_cache, lines 273-280: the cache is read; a hit is returned.
SearchBegin(t) ==
    /\ db.search[t].pc \in {"idle", "done"}
    /\ db' = [db EXCEPT !.search[t] =
                IF db.query_cache.set
                THEN [pc |-> "done", must |-> db.committed,
                      result |-> db.query_cache.value]
                ELSE [pc |-> "miss", must |-> db.committed, result |-> {}]]
    /\ UNCHANGED <<voice, vad, cache, retry, mm, warm>>

\* line 284: similarity_search on the database as it is now.
SearchQuery(t) ==
    /\ db.search[t].pc = "miss"
    /\ db' = [db EXCEPT !.search[t].pc = "found",
                        !.search[t].result = db.ids]
    /\ UNCHANGED <<voice, vad, cache, retry, mm, warm>>

\* lines 287-294: the results are cached and returned.
SearchStore(t) ==
    /\ db.search[t].pc = "found"
    /\ db' = [db EXCEPT !.query_cache = [set |-> TRUE,
                                          value |-> db.search[t].result],
                        !.search[t].pc = "done"]
    /\ UNCHANGED <<voice, vad, cache, retry, mm, warm>>

NextDatabase ==
    \/ \E docs \in DocInputs, size \in BatchSizes, readable \in BOOLEAN :
          AddBegin(docs, size, readable)
    \/ \E ok \in BOOLEAN : AddBatch(ok)
    \/ AddEnd
    \/ \E t \in Searchers : SearchBegin(t) \/ SearchQuery(t) \/ SearchStore(t)

SpecDatabase == InitDatabase /\ [][NextDatabase]_vars

\* C26: a search_with_cache call that started after add_documents_batch
\* calls had returned returns results that include the documents those calls
\* added.
C26_SearchSeesAddedDocuments ==
    \A t \in Searchers :
        db.search[t].pc = "done" => db.search[t].must \subseteq db.search[t].result

\* C30: no batch passed to the database holds an id the database has
\* already; a call repeating the documents of the call before it, which had
\* no errors, adds nothing and skips them all; and the counts of every call
\* add up to the number of its documents.
C30_DuplicatesDetected ==
    /\ db.last_batch.existed = {}
    /\ (db.last_add.returned /\ db.last_add.repeat)
       => /\ db.last_add.added = 0
          /\ db.last_add.skipped = Len(db.last_add.docs)
    /\ db.last_add.returned
       => db.last_add.added + db.last_add.skipped + db.last_add.errors
            = Len(db.last_add.docs)

==========================================================================
